---- MODULE Spec2Model ----
(***************************************************************************)
(* Model of td/telegram/RepliedMessageInfo.cpp: the two constructors of    *)
(* RepliedMessageInfo (from a messageReplyHeader and from a                *)
(* MessageInputReplyTo) and RepliedMessageInfo::need_reply_changed_warning.*)
(***************************************************************************)
EXTENDS Integers, Sequences, FiniteSets, TLC

(***************************************************************************)
(* MessageId: an int64 with the layout of td/telegram/MessageId.h.         *)
(***************************************************************************)
SERVER_ID_SHIFT == 20
FULL_TYPE_MASK == 1048575
TYPE_MASK == 7
SCHEDULED_MASK == 4
TYPE_YET_UNSENT == 1
TYPE_LOCAL == 2
MIN_SEND_DATE == 1073741824
MAX_SCHEDULED_SERVER_ID == 262144

Pow2(n) == IF n = 20 THEN 1048576 ELSE IF n = 21 THEN 2097152 ELSE 8

\* MessageId()
EmptyMessageId == 0

\* MessageId(ServerMessageId): id = server_message_id << SERVER_ID_SHIFT
ServerMessageId(n) == n * Pow2(SERVER_ID_SHIFT)

\* MessageId(ScheduledServerMessageId, send_date): stays empty on a bad date or id
ScheduledMessageId(n, send_date) ==
    IF send_date <= MIN_SEND_DATE THEN EmptyMessageId
    ELSE IF ~(n > 0 /\ n < MAX_SCHEDULED_SERVER_ID) THEN EmptyMessageId
    ELSE (send_date - MIN_SEND_DATE) * Pow2(21) + n * Pow2(3) + SCHEDULED_MASK

is_valid(id) ==
    IF id <= 0 THEN FALSE
    ELSE IF id % (FULL_TYPE_MASK + 1) = 0 THEN TRUE
    ELSE (id % (TYPE_MASK + 1)) \in {TYPE_YET_UNSENT, TYPE_LOCAL}

is_scheduled(id) == (id \div SCHEDULED_MASK) % 2 = 1

is_valid_scheduled(id) ==
    IF id <= 0 THEN FALSE
    ELSE (id % (TYPE_MASK + 1)) \in
             {SCHEDULED_MASK, SCHEDULED_MASK + TYPE_YET_UNSENT, SCHEDULED_MASK + TYPE_LOCAL}

is_scheduled_server(id) == id % (TYPE_MASK + 1) = SCHEDULED_MASK

get_scheduled_server_message_id(id) == (id \div Pow2(3)) % MAX_SCHEDULED_SERVER_ID

(***************************************************************************)
(* DialogId: the chat type and the id inside that type.                    *)
(***************************************************************************)
NoDialog == [type |-> "None", id |-> 0]

MkDialog(t, n) == [type |-> t, id |-> n]

dialog_is_valid(d) == d.type # "None"

\* a telegram_api::Peer, or NullPeer for nullptr
NullPeer == [peer |-> "null", id |-> 0]

\* DialogId(tl_object_ptr<telegram_api::Peer>): an id out of range gives DialogId()
DialogIdOfPeer(p) ==
    IF p.id <= 0 THEN NoDialog
    ELSE IF p.peer = "peerUser" THEN MkDialog("User", p.id)
    ELSE IF p.peer = "peerChat" THEN MkDialog("Chat", p.id)
    ELSE IF p.peer = "peerChannel" THEN MkDialog("Channel", p.id)
    ELSE NoDialog

(***************************************************************************)
(* MessageOrigin                                                           *)
(***************************************************************************)
NoOrigin == [sender_user_id_ |-> 0, sender_dialog_id_ |-> NoDialog,
             message_id_ |-> EmptyMessageId, author_signature_ |-> ""]

origin_is_empty(o) == o = NoOrigin

has_sender_signature(o) == o.author_signature_ # ""

\* MessageOrigin::get_message_full_id
get_message_full_id(o) ==
    IF is_valid(o.message_id_) /\ dialog_is_valid(o.sender_dialog_id_)
    THEN [dialog_id |-> o.sender_dialog_id_, message_id |-> o.message_id_]
    ELSE [dialog_id |-> NoDialog, message_id |-> EmptyMessageId]

(***************************************************************************)
(* FormattedText and the text helpers of MessageEntity.cpp / misc.cpp      *)
(***************************************************************************)
EmptyText == [text |-> <<>>, entities |-> <<>>]

RECURSIVE SelectKinds(_, _)
SelectKinds(es, allowed) ==
    IF es = <<>> THEN <<>>
    ELSE IF Head(es) \in allowed THEN <<Head(es)>> \o SelectKinds(Tail(es), allowed)
    ELSE SelectKinds(Tail(es), allowed)

QuoteEntityKinds == {"Bold", "Italic", "Underline", "Strikethrough", "Spoiler", "CustomEmoji"}

remove_unallowed_quote_entities(q) ==
    [text |-> q.text, entities |-> SelectKinds(q.entities, QuoteEntityKinds)]

RECURSIVE LTrim(_)
LTrim(s) == IF s # <<>> /\ Head(s) = " " THEN LTrim(Tail(s)) ELSE s

RECURSIVE RTrim(_)
RTrim(s) == IF s # <<>> /\ s[Len(s)] = " " THEN RTrim(SubSeq(s, 1, Len(s) - 1)) ELSE s

HasChar(s, c) == \E i \in 1..Len(s) : s[i] = c

\* clean_input_string: fails on a string that is not UTF-8 (the character "?")
clean_input_string(s) == [ok |-> ~HasChar(s, "?"), text |-> s]

\* fix_formatted_text(text, entities, true, true, true, true, false):
\* an error on invalid text or entities, otherwise the text trimmed
fix_formatted_text(s, es) ==
    IF HasChar(s, "?") \/ HasChar(es, "Invalid")
    THEN [ok |-> FALSE, text |-> s, entities |-> es]
    ELSE [ok |-> TRUE, text |-> RTrim(LTrim(s)),
          entities |-> IF RTrim(LTrim(s)) = <<>> THEN <<>> ELSE es]

\* get_message_entities: the entities of the header that have a MessageEntity type
get_message_entities(es) == SelectKinds(es, QuoteEntityKinds \cup {"Mention", "Invalid"})

truncate_formatted_text(q, n) ==
    IF Len(q.text) <= n THEN q
    ELSE [text |-> SubSeq(q.text, 1, n), entities |-> <<>>]

Max(a, b) == IF a > b THEN a ELSE b
Min(a, b) == IF a < b THEN a ELSE b

(***************************************************************************)
(* MessageContent                                                          *)
(***************************************************************************)
NoContent == [type |-> "nullptr", text |-> EmptyText]
NullMedia == "nullptr"

\* get_message_content(td, FormattedText(), media, ...)
get_message_content(media) ==
    [type |-> IF media = "messageMediaPhoto" THEN "Photo" ELSE "Unsupported",
     text |-> EmptyText]

is_supported_reply_message_content(type) == type \in {"Text", "Photo"}

\* get_message_content_text_mutable: only a text message has a text
has_content_text(c) == c.type = "Text"

(***************************************************************************)
(* RepliedMessageInfo                                                      *)
(***************************************************************************)
EmptyInfo ==
    [message_id_ |-> EmptyMessageId, dialog_id_ |-> NoDialog, origin_date_ |-> 0,
     origin_ |-> NoOrigin, content_ |-> NoContent, quote_ |-> EmptyText,
     quote_position_ |-> 0, is_quote_manual_ |-> FALSE]

\* has_qts_messages(td, dialog_id)
has_qts_messages(session_count, dialog_id) ==
    IF dialog_id.type \in {"User", "Chat"} THEN session_count > 1 ELSE FALSE


(***************************************************************************)
(* RepliedMessageInfo(Td *, messageReplyHeader &&, DialogId, MessageId,    *)
(* int32 date), one step of the constructor per definition.                *)
(***************************************************************************)
\* a scheduled reply that keeps the chat of the header
ScheduledTarget_KeepsPeer(h, message_id, date) ==
    LET m0 == ScheduledMessageId(h.reply_to_msg_id_, date)
    IN  IF is_valid_scheduled(message_id)
        THEN [message_id_ |-> IF message_id = m0 THEN EmptyMessageId ELSE m0,
              dialog_id_ |-> DialogIdOfPeer(h.reply_to_peer_id_)]
        ELSE [message_id_ |-> EmptyMessageId, dialog_id_ |-> NoDialog]

\* reply_to_scheduled_ branch: message_id_ and dialog_id_
ScheduledTarget(h, message_id, date) ==
    LET m0 == ScheduledMessageId(h.reply_to_msg_id_, date)
    IN  IF is_valid_scheduled(message_id)
        THEN LET m1 == IF h.reply_to_peer_id_ # NullPeer THEN EmptyMessageId ELSE m0
             IN  [message_id_ |-> IF message_id = m1 THEN EmptyMessageId ELSE m1,
                  dialog_id_ |-> NoDialog]
        ELSE [message_id_ |-> EmptyMessageId, dialog_id_ |-> NoDialog]

\* the test without its self-reply half
IsAnomalousTarget_NoSelfReply(td, target, dialog_id, message_id) ==
    target > message_id /\ ~has_qts_messages(td.session_count, dialog_id)

\* the out-of-order / self-reply test of the non-scheduled branch
IsAnomalousTarget(td, target, dialog_id, message_id) ==
    \/ (target > message_id /\ ~has_qts_messages(td.session_count, dialog_id))
    \/ target = message_id

\* a parser that never reads reply_to_peer_id_
HeaderPeerDialog_Ignored(h) == NoDialog

\* dialog_id_ = DialogId(reply_header->reply_to_peer_id_), when there is one
HeaderPeerDialog(h) ==
    IF h.reply_to_peer_id_ # NullPeer THEN DialogIdOfPeer(h.reply_to_peer_id_) ELSE NoDialog

\* non-scheduled branch: message_id_ and dialog_id_
RegularTarget(td, h, dialog_id, message_id) ==
    IF h.reply_to_msg_id_ # 0
    THEN LET m0 == ServerMessageId(h.reply_to_msg_id_)
             d0 == HeaderPeerDialog(h)
             badPeer == h.reply_to_peer_id_ # NullPeer /\ ~dialog_is_valid(d0)
             m1 == IF badPeer THEN EmptyMessageId ELSE m0
             d1 == IF badPeer THEN NoDialog ELSE d0
         IN  IF ~is_valid(m1)
             THEN [message_id_ |-> EmptyMessageId, dialog_id_ |-> NoDialog]
             ELSE IF /\ ~is_scheduled(message_id)
                     /\ ~dialog_is_valid(d1)
                     /\ IsAnomalousTarget(td, m1, dialog_id, message_id)
             THEN [message_id_ |-> EmptyMessageId, dialog_id_ |-> d1]
             ELSE [message_id_ |-> m1, dialog_id_ |-> d1]
    ELSE [message_id_ |-> EmptyMessageId, dialog_id_ |-> NoDialog]

\* reply_from_: origin_date_ and origin_
\* a messageFwdHeader with the outcome of MessageOrigin::get_message_origin on it
NullReplyFrom == [null |-> TRUE, date_ |-> 0, resolves |-> FALSE, origin |-> NoOrigin]

HeaderOrigin(h) ==
    IF h.reply_from_ # NullReplyFrom
    THEN IF h.reply_from_.date_ <= 0
         THEN [origin_date_ |-> 0, origin_ |-> NoOrigin]
         ELSE IF ~h.reply_from_.resolves
         THEN [origin_date_ |-> 0, origin_ |-> NoOrigin]
         ELSE [origin_date_ |-> h.reply_from_.date_, origin_ |-> h.reply_from_.origin]
    ELSE [origin_date_ |-> 0, origin_ |-> NoOrigin]

\* reply_media_: content_
HeaderContent(h, origin_) ==
    IF /\ ~origin_is_empty(origin_)
       /\ h.reply_media_ # NullMedia
       /\ h.reply_media_ # "messageMediaEmpty"
    THEN LET c == get_message_content(h.reply_media_)
         IN  IF ~is_supported_reply_message_content(c.type) THEN NoContent ELSE c
    ELSE NoContent

\* quote_position_ = max(0, reply_header->quote_offset_)
HeaderQuotePosition(offset) == Max(0, offset)

\* a gate that looks at the target of the header, not at the one that survived
HasQuote_BeforeScrub(h, origin_, message_id_) ==
    (~origin_is_empty(origin_) \/ h.reply_to_msg_id_ # 0) /\ h.quote_text_ # <<>>

\* the condition of the quote block
HasQuote(h, origin_, message_id_) ==
    (~origin_is_empty(origin_) \/ message_id_ # EmptyMessageId) /\ h.quote_text_ # <<>>

\* the quote block: quote_, quote_position_ and is_quote_manual_
HeaderQuote(h, origin_, message_id_) ==
    IF HasQuote(h, origin_, message_id_)
    THEN LET entities == get_message_entities(h.quote_entities_)
             status == fix_formatted_text(h.quote_text_, entities)
             cleaned == clean_input_string(h.quote_text_)
             text == IF status.ok THEN status.text
                     ELSE IF cleaned.ok THEN cleaned.text ELSE <<>>
             ents == IF status.ok THEN status.entities ELSE <<>>
         IN  [quote_ |-> remove_unallowed_quote_entities([text |-> text, entities |-> ents]),
              quote_position_ |-> HeaderQuotePosition(h.quote_offset_),
              is_quote_manual_ |-> h.quote_]
    ELSE [quote_ |-> EmptyText, quote_position_ |-> 0, is_quote_manual_ |-> FALSE]

FromHeader(td, h, dialog_id, message_id, date) ==
    LET target == IF h.reply_to_scheduled_
                  THEN ScheduledTarget(h, message_id, date)
                  ELSE RegularTarget(td, h, dialog_id, message_id)
        org == IF h.reply_to_scheduled_
               THEN [origin_date_ |-> 0, origin_ |-> NoOrigin]
               ELSE HeaderOrigin(h)
        content == IF h.reply_to_scheduled_ THEN NoContent ELSE HeaderContent(h, org.origin_)
        q == HeaderQuote(h, org.origin_, target.message_id_)
    IN  [message_id_ |-> target.message_id_, dialog_id_ |-> target.dialog_id_,
         origin_date_ |-> org.origin_date_, origin_ |-> org.origin_,
         content_ |-> content, quote_ |-> q.quote_,
         quote_position_ |-> q.quote_position_, is_quote_manual_ |-> q.is_quote_manual_]

(***************************************************************************)
(* RepliedMessageInfo(Td *, const MessageInputReplyTo &)                   *)
(***************************************************************************)
\* the quote adopted from the reply intent
LocalQuotePosition(input_reply_to) == input_reply_to.quote_position_

LocalQuote(input_reply_to) ==
    IF input_reply_to.quote_.text # <<>>
    THEN [quote_ |-> input_reply_to.quote_,
          quote_position_ |-> LocalQuotePosition(input_reply_to),
          is_quote_manual_ |-> TRUE]
    ELSE [quote_ |-> EmptyText, quote_position_ |-> 0, is_quote_manual_ |-> FALSE]

\* a test of the date alone
LookupFailed_DateOnly(info) == info.origin_date_ = 0

\* info.origin_date_ == 0 || info.origin_.is_empty() || info.content_ == nullptr
LookupFailed(info) ==
    info.origin_date_ = 0 \/ origin_is_empty(info.origin_) \/ info.content_ = NoContent

FromInputReplyTo(td, input_reply_to, info) ==
    IF ~is_valid(input_reply_to.message_id_) THEN EmptyInfo
    ELSE LET q == LocalQuote(input_reply_to)
         IN  IF input_reply_to.dialog_id_ # NoDialog
             THEN IF LookupFailed(info) THEN EmptyInfo
                  ELSE LET takeText == has_content_text(info.content_) /\ ~q.is_quote_manual_
                           quote == IF takeText
                                    THEN truncate_formatted_text(
                                             remove_unallowed_quote_entities(info.content_.text),
                                             td.message_reply_quote_length_max)
                                    ELSE q.quote_
                           content == IF has_content_text(info.content_)
                                      THEN [info.content_ EXCEPT !.text = EmptyText]
                                      ELSE info.content_
                           full == get_message_full_id(info.origin_)
                           mid == IF is_valid(full.message_id) THEN full.message_id
                                  ELSE IF input_reply_to.dialog_id_.type = "Channel"
                                  THEN input_reply_to.message_id_
                                  ELSE EmptyMessageId
                           did == IF is_valid(full.message_id) THEN full.dialog_id
                                  ELSE IF input_reply_to.dialog_id_.type = "Channel"
                                  THEN input_reply_to.dialog_id_
                                  ELSE NoDialog
                       IN  [message_id_ |-> mid, dialog_id_ |-> did,
                            origin_date_ |-> info.origin_date_, origin_ |-> info.origin_,
                            content_ |-> content, quote_ |-> quote,
                            quote_position_ |-> q.quote_position_,
                            is_quote_manual_ |-> q.is_quote_manual_]
             ELSE [message_id_ |-> input_reply_to.message_id_, dialog_id_ |-> NoDialog,
                   origin_date_ |-> 0, origin_ |-> NoOrigin, content_ |-> NoContent,
                   quote_ |-> q.quote_, quote_position_ |-> q.quote_position_,
                   is_quote_manual_ |-> q.is_quote_manual_]


(***************************************************************************)
(* RepliedMessageInfo::need_reply_changed_warning                          *)
(***************************************************************************)
\* origin_date_ of both known and different
OriginDateChanged(old_info, new_info) ==
    /\ old_info.origin_date_ # new_info.origin_date_
    /\ old_info.origin_date_ # 0
    /\ new_info.origin_date_ # 0

\* origins of both known, unsigned and different
OriginChanged(old_info, new_info) ==
    /\ old_info.origin_ # new_info.origin_
    /\ ~has_sender_signature(old_info.origin_)
    /\ ~has_sender_signature(new_info.origin_)
    /\ ~origin_is_empty(old_info.origin_)
    /\ ~origin_is_empty(new_info.origin_)

\* a comparison that sees a position move forward only
QuotePositionChanged_OneWay(old_info, new_info) ==
    /\ old_info.quote_position_ < new_info.quote_position_
    /\ Max(old_info.quote_position_, new_info.quote_position_)
         < Min(Len(old_info.quote_.text), Len(new_info.quote_.text))

QuotePositionChanged(old_info, new_info) ==
    /\ old_info.quote_position_ # new_info.quote_position_
    /\ Max(old_info.quote_position_, new_info.quote_position_)
         < Min(Len(old_info.quote_.text), Len(new_info.quote_.text))

QuoteChanged(td, old_info, new_info) ==
    /\ old_info.quote_ # new_info.quote_
    /\ \/ old_info.is_quote_manual_
       \/ Max(Len(old_info.quote_.text), Len(new_info.quote_.text))
            < td.message_reply_quote_length_max - 70

DialogChanged(old_info, new_info) ==
    /\ old_info.dialog_id_ # new_info.dialog_id_
    /\ old_info.dialog_id_ # NoDialog
    /\ new_info.dialog_id_ # NoDialog

\* the same-target branch with the date test of the first rule
SameTargetChanged_BothKnown(old_info, new_info) ==
    /\ old_info.message_id_ # EmptyMessageId
    /\ \/ OriginDateChanged(old_info, new_info)
       \/ /\ old_info.origin_ # new_info.origin_
          /\ ~has_sender_signature(old_info.origin_)
          /\ ~has_sender_signature(new_info.origin_)

\* the same-target branch without the comparison of the origins
SameTargetChanged_NoOriginCompare(old_info, new_info) ==
    /\ old_info.message_id_ # EmptyMessageId
    /\ \/ old_info.origin_date_ # new_info.origin_date_
       \/ /\ ~has_sender_signature(old_info.origin_)
          /\ ~has_sender_signature(new_info.origin_)

\* the branch taken when message_id_ and dialog_id_ are both unchanged
SameTargetChanged(old_info, new_info) ==
    /\ old_info.message_id_ # EmptyMessageId
    /\ \/ old_info.origin_date_ # new_info.origin_date_
       \/ /\ old_info.origin_ # new_info.origin_
          /\ ~has_sender_signature(old_info.origin_)
          /\ ~has_sender_signature(new_info.origin_)

SameScheduledSlot(old_info, new_info) ==
    /\ is_valid_scheduled(old_info.message_id_) /\ is_scheduled_server(old_info.message_id_)
    /\ is_valid_scheduled(new_info.message_id_) /\ is_scheduled_server(new_info.message_id_)
    /\ get_scheduled_server_message_id(old_info.message_id_)
         = get_scheduled_server_message_id(new_info.message_id_)

\* the deleted-target rule applied to sent messages too
TargetChanged_DeletedAnyHost(old_info, new_info, old_top_thread_message_id, is_yet_unsent, deleted_old, deleted_new) ==
    IF deleted_old /\ new_info.message_id_ = EmptyMessageId THEN FALSE
    ELSE IF is_yet_unsent /\ deleted_new /\ old_info.message_id_ = EmptyMessageId THEN FALSE
    ELSE IF /\ is_valid_scheduled(old_info.message_id_)
            /\ is_scheduled_server(old_info.message_id_)
            /\ is_valid_scheduled(new_info.message_id_)
            /\ is_scheduled_server(new_info.message_id_)
            /\ get_scheduled_server_message_id(old_info.message_id_)
                 = get_scheduled_server_message_id(new_info.message_id_)
    THEN FALSE
    ELSE IF /\ is_yet_unsent
            /\ old_top_thread_message_id = new_info.message_id_
            /\ new_info.dialog_id_ = NoDialog
    THEN FALSE
    ELSE TRUE

\* the rules after the same-target branch; deleted_old and deleted_new are the
\* answers of is_reply_to_deleted_message on old_info and new_info
TargetChanged(old_info, new_info, old_top_thread_message_id, is_yet_unsent, deleted_old, deleted_new) ==
    IF is_yet_unsent /\ deleted_old /\ new_info.message_id_ = EmptyMessageId THEN FALSE
    ELSE IF is_yet_unsent /\ deleted_new /\ old_info.message_id_ = EmptyMessageId THEN FALSE
    ELSE IF SameScheduledSlot(old_info, new_info) THEN FALSE
    ELSE IF /\ is_yet_unsent
            /\ old_top_thread_message_id = new_info.message_id_
            /\ new_info.dialog_id_ = NoDialog
    THEN FALSE
    ELSE TRUE

need_reply_changed_warning(td, old_info, new_info, old_top_thread_message_id, is_yet_unsent, deleted_old, deleted_new) ==
    IF OriginDateChanged(old_info, new_info) THEN TRUE
    ELSE IF OriginChanged(old_info, new_info) THEN TRUE
    ELSE IF QuotePositionChanged(old_info, new_info) THEN TRUE
    ELSE IF old_info.is_quote_manual_ # new_info.is_quote_manual_ THEN TRUE
    ELSE IF QuoteChanged(td, old_info, new_info) THEN TRUE
    ELSE IF DialogChanged(old_info, new_info) THEN TRUE
    ELSE IF /\ old_info.message_id_ = new_info.message_id_
            /\ old_info.dialog_id_ = new_info.dialog_id_
    THEN SameTargetChanged(old_info, new_info)
    ELSE TargetChanged(old_info, new_info, old_top_thread_message_id, is_yet_unsent,
                       deleted_old, deleted_new)


(***************************************************************************)
(* Bounds and the inputs drawn within them                                 *)
(***************************************************************************)
MaxServerId == 2
MaxOffset == 1

\* send dates: one that is no schedule date, and schedule dates
ScheduleDate == MIN_SEND_DATE + 1
LaterScheduleDate == MIN_SEND_DATE + 2
SendDates == {1, ScheduleDate}

\* td->option_manager_: the two options the code reads
Td(session_count, quote_length_max) ==
    [session_count |-> session_count, message_reply_quote_length_max |-> quote_length_max]
SessionCounts == {1, 2}
QuoteLengthMax == {72, 1024}

UserOrigin == [NoOrigin EXCEPT !.sender_user_id_ = 1]
OtherUserOrigin == [NoOrigin EXCEPT !.sender_user_id_ = 2]
SignedOrigin == [NoOrigin EXCEPT !.sender_dialog_id_ = MkDialog("Channel", 1),
                                 !.author_signature_ = "editor"]
ChannelPostOrigin == [NoOrigin EXCEPT !.sender_dialog_id_ = MkDialog("Channel", 2),
                                      !.message_id_ = ServerMessageId(2)]

Peers == {NullPeer, [peer |-> "peerUser", id |-> 0], [peer |-> "peerChannel", id |-> 1]}

ReplyFroms ==
    {NullReplyFrom,
     [null |-> FALSE, date_ |-> 0, resolves |-> TRUE, origin |-> UserOrigin],
     [null |-> FALSE, date_ |-> 100, resolves |-> FALSE, origin |-> NoOrigin],
     [null |-> FALSE, date_ |-> 100, resolves |-> TRUE, origin |-> UserOrigin]}

Medias == {NullMedia, "messageMediaEmpty", "messageMediaPhoto", "messageMediaUnsupported"}

\* quote_text_ with quote_entities_
HeaderQuotes ==
    {[text |-> <<>>, entities |-> <<>>],
     [text |-> <<"a", "b">>, entities |-> <<"Bold", "Mention", "Unknown">>],
     [text |-> <<" ">>, entities |-> <<>>],
     [text |-> <<"?">>, entities |-> <<"Bold">>],
     [text |-> <<"a">>, entities |-> <<"Invalid">>]}

Headers ==
    {[reply_to_scheduled_ |-> s, reply_to_msg_id_ |-> m, reply_to_peer_id_ |-> p,
      reply_from_ |-> f, reply_media_ |-> c, quote_ |-> q, quote_text_ |-> t.text,
      quote_entities_ |-> t.entities, quote_offset_ |-> o] :
        s \in BOOLEAN, m \in -1..MaxServerId, p \in Peers, f \in ReplyFroms,
        c \in Medias, q \in BOOLEAN, t \in HeaderQuotes, o \in -1..MaxOffset}

HostDialogs == {MkDialog("User", 1), MkDialog("Channel", 1)}

HostMessageIds ==
    {ServerMessageId(n) : n \in 1..MaxServerId}
        \cup {ScheduledMessageId(n, ScheduleDate) : n \in 1..2}

\* MessageInputReplyTo
InputReplyTos ==
    {[message_id_ |-> m, dialog_id_ |-> d, quote_ |-> q, quote_position_ |-> o] :
        m \in {EmptyMessageId, ServerMessageId(1)},
        d \in {NoDialog, MkDialog("User", 1), MkDialog("Channel", 1)},
        q \in {EmptyText, [text |-> <<"a", "b">>, entities |-> <<"Bold">>]},
        o \in -1..MaxOffset}

\* a text longer than message_reply_quote_length_max can be
LongText == [text |-> [i \in 1..73 |-> "a"], entities |-> <<"Bold", "Mention">>]

\* what MessagesManager::get_forwarded_message_info can return
ForwardedInfos ==
    {[origin_date_ |-> d, origin_ |-> o, content_ |-> c] :
        d \in {0, 100},
        o \in {NoOrigin, UserOrigin, ChannelPostOrigin},
        c \in {NoContent, [type |-> "Photo", text |-> EmptyText],
               [type |-> "Text", text |-> LongText]}}

\* the parts of a stored RepliedMessageInfo that need_reply_changed_warning reads
ReplyTargets ==
    {[message_id_ |-> m, dialog_id_ |-> d] :
        m \in {EmptyMessageId, ServerMessageId(1), ScheduledMessageId(1, ScheduleDate),
               ScheduledMessageId(1, LaterScheduleDate)},
        d \in {NoDialog, MkDialog("User", 1), MkDialog("Channel", 1)}}

ReplyOrigins ==
    {[origin_date_ |-> d, origin_ |-> o] :
        d \in {0, 100, 200},
        o \in {NoOrigin, UserOrigin, OtherUserOrigin, SignedOrigin}}

ReplyQuotes ==
    {[quote_ |-> [text |-> t, entities |-> <<>>], quote_position_ |-> o,
      is_quote_manual_ |-> m] :
        t \in {<<>>, <<"a">>, <<"a", "b">>}, o \in 0..MaxOffset, m \in BOOLEAN}

MkInfo(t, o, q) ==
    [message_id_ |-> t.message_id_, dialog_id_ |-> t.dialog_id_,
     origin_date_ |-> o.origin_date_, origin_ |-> o.origin_, content_ |-> NoContent,
     quote_ |-> q.quote_, quote_position_ |-> q.quote_position_,
     is_quote_manual_ |-> q.is_quote_manual_]

\* a later state of the reply: its target, its origin or its quote is another one
Refetched(t, o, q) ==
    {MkInfo(t2, o, q) : t2 \in ReplyTargets}
        \cup {MkInfo(t, o2, q) : o2 \in ReplyOrigins}
        \cup {MkInfo(t, o, q2) : q2 \in ReplyQuotes}

(***************************************************************************)
(* State: the last call and what it returned                               *)
(***************************************************************************)
VARIABLES pc, call, info, warning

vars == <<pc, call, info, warning>>

Init ==
    /\ pc = "idle"
    /\ \E sc \in SessionCounts, qlm \in QuoteLengthMax : call = [td |-> Td(sc, qlm)]
    /\ info = EmptyInfo
    /\ warning = FALSE

\* need_reply_changed_warning reads message_reply_quote_length_max only
InitOracle ==
    /\ pc = "idle"
    /\ \E qlm \in QuoteLengthMax : call = [td |-> Td(1, qlm)]
    /\ info = EmptyInfo
    /\ warning = FALSE

\* a message with a reply header arrives
ParseHeader ==
    /\ pc = "idle"
    /\ \E h \in Headers, dialog_id \in HostDialogs,
          message_id \in HostMessageIds, date \in SendDates :
           /\ pc' = "header"
           /\ call' = [td |-> call.td, reply_header |-> h, dialog_id |-> dialog_id,
                       message_id |-> message_id, date |-> date]
           /\ info' = FromHeader(call.td, h, dialog_id, message_id, date)
    /\ UNCHANGED warning

\* the user replies to a message
BuildLocal ==
    /\ pc = "idle"
    /\ \E input_reply_to \in InputReplyTos, forwarded \in ForwardedInfos :
           /\ pc' = "local"
           /\ call' = [td |-> call.td, input_reply_to |-> input_reply_to,
                       forwarded |-> forwarded]
           /\ info' = FromInputReplyTo(call.td, input_reply_to, forwarded)
    /\ UNCHANGED warning

\* the stored reply is compared with a later state of it
NeedReplyChangedWarning ==
    /\ pc = "idle"
    /\ \E t \in ReplyTargets, o \in ReplyOrigins, q \in ReplyQuotes :
         \E new_info \in Refetched(t, o, q),
            old_top_thread_message_id \in {EmptyMessageId, ServerMessageId(1)},
            is_yet_unsent \in BOOLEAN, deleted_old \in BOOLEAN, deleted_new \in BOOLEAN :
              /\ MkInfo(t, o, q) = new_info => deleted_old = deleted_new
              /\ pc' = "warning"
              /\ call' = [td |-> call.td, old_info |-> MkInfo(t, o, q), new_info |-> new_info,
                          old_top_thread_message_id |-> old_top_thread_message_id,
                          is_yet_unsent |-> is_yet_unsent,
                          deleted_old |-> deleted_old, deleted_new |-> deleted_new]
              /\ warning' = need_reply_changed_warning(
                                call.td, MkInfo(t, o, q), new_info, old_top_thread_message_id,
                                is_yet_unsent, deleted_old, deleted_new)
    /\ UNCHANGED info

Next == ParseHeader \/ BuildLocal

Spec == Init /\ [][Next]_vars

NextOracle == NeedReplyChangedWarning

SpecOracle == InitOracle /\ [][NextOracle]_vars


(***************************************************************************)
(* Properties                                                              *)
(***************************************************************************)
Built == pc \in {"header", "local"}

\* the fields of both snapshots that the claim about origin_date keeps equal
SameButOriginDate(a, b) ==
    /\ a.message_id_ = b.message_id_
    /\ a.message_id_ # EmptyMessageId
    /\ a.dialog_id_ = b.dialog_id_
    /\ a.origin_ = b.origin_
    /\ a.quote_ = b.quote_
    /\ a.quote_position_ = b.quote_position_
    /\ a.is_quote_manual_ = b.is_quote_manual_

OneDateUnset(a, b) ==
    /\ a.origin_date_ # b.origin_date_
    /\ (a.origin_date_ = 0 \/ b.origin_date_ = 0)

\* C1 as stated: with the same non-empty target, the same chat, origin and quote,
\* an origin_date that differs only because one of the two is 0 gives no warning.
C1_Original ==
    (/\ pc = "warning"
     /\ SameButOriginDate(call.old_info, call.new_info)
     /\ OneDateUnset(call.old_info, call.new_info))
        => warning = FALSE

\* C1 amended: with the same non-empty target, the same chat, origin and quote,
\* every difference of origin_date gives a warning, also when one of the two
\* dates is 0; only the first rule asks for both dates to be non-zero.
C1_SameTargetDateChange ==
    (/\ pc = "warning"
     /\ SameButOriginDate(call.old_info, call.new_info)
     /\ call.old_info.origin_date_ # call.new_info.origin_date_)
        => warning = TRUE

C1_Witness ==
    /\ pc = "warning"
    /\ SameButOriginDate(call.old_info, call.new_info)
    /\ call.old_info.origin_date_ = 0
    /\ call.new_info.origin_date_ = 100
    /\ warning = TRUE

\* C2: a header with reply_to_scheduled and a reply_to_peer_id gives an instance
\* with no target message and no target chat, whatever the host message is.
C2_ScheduledCrossChatScrubbed ==
    (/\ pc = "header"
     /\ call.reply_header.reply_to_scheduled_
     /\ call.reply_header.reply_to_peer_id_ # NullPeer)
        => (info.message_id_ = EmptyMessageId /\ info.dialog_id_ = NoDialog)

C2_Witness ==
    /\ pc = "header"
    /\ call.reply_header.reply_to_scheduled_
    /\ call.reply_header.reply_to_peer_id_ = [peer |-> "peerChannel", id |-> 1]
    /\ is_valid_scheduled(call.message_id)
    /\ is_valid_scheduled(ScheduledMessageId(call.reply_header.reply_to_msg_id_, call.date))
    /\ ScheduledMessageId(call.reply_header.reply_to_msg_id_, call.date) # call.message_id
    /\ info.message_id_ = EmptyMessageId
    /\ info.dialog_id_ = NoDialog

\* C3 as stated: a scheduled host message always gets an empty target chat.
C3_Original ==
    (pc = "header" /\ is_scheduled(call.message_id)) => info.dialog_id_ = NoDialog

\* the header names a valid chat and a valid message that is not a scheduled one
CrossChatHeader(h) ==
    /\ ~h.reply_to_scheduled_
    /\ h.reply_to_msg_id_ > 0
    /\ h.reply_to_peer_id_ # NullPeer
    /\ h.reply_to_peer_id_.id > 0

\* C3 amended: for a scheduled host message the target chat is empty for every
\* header except one that names a valid chat and a valid non-zero message id
\* without reply_to_scheduled; that header keeps its chat as the target chat.
C3_ScheduledHostTargetChat ==
    (pc = "header" /\ is_scheduled(call.message_id))
        => IF CrossChatHeader(call.reply_header)
           THEN /\ info.dialog_id_ # NoDialog
                /\ info.dialog_id_.id = call.reply_header.reply_to_peer_id_.id
                /\ info.message_id_ = call.reply_header.reply_to_msg_id_ * 1048576
           ELSE info.dialog_id_ = NoDialog

C3_Witness ==
    /\ pc = "header"
    /\ is_scheduled(call.message_id)
    /\ CrossChatHeader(call.reply_header)
    /\ info.dialog_id_ = MkDialog("Channel", 1)

\* the header's target was dropped by the out-of-order / self-reply test
ScrubbedByHeuristic ==
    /\ pc = "header"
    /\ ~call.reply_header.reply_to_scheduled_
    /\ call.reply_header.reply_to_msg_id_ > 0
    /\ call.reply_header.reply_to_peer_id_ = NullPeer
    /\ ~is_scheduled(call.message_id)
    /\ info.message_id_ = EmptyMessageId

\* C5: in every built instance a non-empty quote comes with an origin or a target
\* message; a header whose target was dropped by the heuristic and that has no
\* origin gives no target and no quote.
C5_QuoteNeedsOriginOrTarget ==
    /\ (Built /\ info.quote_.text # <<>>)
           => (info.origin_ # NoOrigin \/ info.message_id_ # EmptyMessageId)
    /\ (ScrubbedByHeuristic /\ info.origin_ = NoOrigin) => info.quote_ = EmptyText

C5_Witness ==
    /\ ScrubbedByHeuristic
    /\ info.origin_ = NoOrigin
    /\ call.reply_header.quote_text_ = <<"a", "b">>
    /\ call.reply_header.reply_to_msg_id_ * 1048576 > call.message_id
    /\ info.quote_ = EmptyText

\* C6: quote_position is never negative, whichever constructor built the instance.
C6_QuotePositionNonNegative ==
    Built => info.quote_position_ >= 0

\* the forwarded-message lookup gave nothing usable
NothingForwarded(f) ==
    f.origin_date_ = 0 \/ f.origin_ = NoOrigin \/ f.content_.type = "nullptr"

\* C7: a local reply to a message of another chat whose lookup gives no date, no
\* origin or no content is the empty instance, a manual quote included.
C7_FailedLookupGivesEmpty ==
    (/\ pc = "local"
     /\ call.input_reply_to.message_id_ = 1048576
     /\ call.input_reply_to.dialog_id_ # NoDialog
     /\ NothingForwarded(call.forwarded))
        => /\ info.message_id_ = EmptyMessageId /\ info.dialog_id_ = NoDialog
           /\ info.origin_date_ = 0 /\ info.origin_ = NoOrigin
           /\ info.content_ = NoContent
           /\ info.quote_ = EmptyText /\ info.quote_position_ = 0
           /\ info.is_quote_manual_ = FALSE

C7_Witness ==
    /\ pc = "local"
    /\ call.input_reply_to.message_id_ = 1048576
    /\ call.input_reply_to.dialog_id_ = MkDialog("Channel", 1)
    /\ call.input_reply_to.quote_.text = <<"a", "b">>
    /\ call.forwarded.origin_date_ = 100
    /\ call.forwarded.origin_ = NoOrigin
    /\ call.forwarded.content_.type = "Photo"
    /\ info = EmptyInfo

PositionsDiffer == call.old_info.quote_position_ # call.new_info.quote_position_

ShorterQuote == Min(Len(call.old_info.quote_.text), Len(call.new_info.quote_.text))

\* C8 as stated: positions that differ, the smaller of them inside both quotes,
\* give a warning.
C8_Original ==
    (/\ pc = "warning"
     /\ PositionsDiffer
     /\ Min(call.old_info.quote_position_, call.new_info.quote_position_) < ShorterQuote)
        => warning = TRUE

\* C8 amended: positions that differ, the larger of them inside both quotes, give
\* a warning, whatever the other fields and arguments are.
C8_PositionChangeInsideBothQuotes ==
    (/\ pc = "warning"
     /\ PositionsDiffer
     /\ Max(call.old_info.quote_position_, call.new_info.quote_position_) < ShorterQuote)
        => warning = TRUE

C8_Witness ==
    /\ pc = "warning"
    /\ call.old_info.quote_position_ = 1
    /\ call.new_info.quote_position_ = 0
    /\ call.old_info.quote_ = call.new_info.quote_
    /\ Len(call.old_info.quote_.text) = 2
    /\ call.old_info.origin_date_ = 0
    /\ warning = TRUE

\* has_gap_prone_delivery(chat): a user or basic-group chat with several sessions
GapProneDelivery == call.dialog_id.type \in {"User", "Chat"} /\ call.td.session_count > 1

HeaderTarget == call.reply_header.reply_to_msg_id_ * 1048576

\* C9: for a host message that is not scheduled and a header without
\* reply_to_scheduled and reply_to_peer_id whose reply_to_msg_id is valid, the
\* target is empty exactly when it is greater than the host id in a chat without
\* gap-prone delivery, or equal to the host id, and is the header's id otherwise;
\* origin and origin_date of a well-formed reply_from are kept.
C9_OutOfOrderScrub ==
    (/\ pc = "header"
     /\ ~is_scheduled(call.message_id)
     /\ ~call.reply_header.reply_to_scheduled_
     /\ call.reply_header.reply_to_msg_id_ > 0
     /\ call.reply_header.reply_to_peer_id_ = NullPeer)
        => /\ info.message_id_ =
                  IF \/ (HeaderTarget > call.message_id /\ ~GapProneDelivery)
                     \/ HeaderTarget = call.message_id
                  THEN EmptyMessageId ELSE HeaderTarget
           /\ (/\ ~call.reply_header.reply_from_.null
               /\ call.reply_header.reply_from_.date_ > 0
               /\ call.reply_header.reply_from_.resolves)
                  => /\ info.origin_ = call.reply_header.reply_from_.origin
                     /\ info.origin_date_ = call.reply_header.reply_from_.date_

C9_Witness ==
    /\ pc = "header"
    /\ ~is_scheduled(call.message_id)
    /\ ~call.reply_header.reply_to_scheduled_
    /\ call.reply_header.reply_to_peer_id_ = NullPeer
    /\ HeaderTarget = call.message_id
    /\ GapProneDelivery
    /\ call.reply_header.reply_from_.resolves
    /\ call.reply_header.reply_from_.date_ = 100
    /\ info.message_id_ = EmptyMessageId
    /\ info.origin_date_ = 100

\* C4: a snapshot compared with itself gives no warning, for every thread root,
\* sent or unsent host and answer of the deleted-message lookup.
C4_Reflexive ==
    (pc = "warning" /\ call.old_info = call.new_info) => warning = FALSE

C4_Witness ==
    /\ pc = "warning"
    /\ call.old_info = call.new_info
    /\ call.old_info.message_id_ = 1048576
    /\ call.old_info.origin_ = UserOrigin
    /\ call.old_info.origin_date_ = 100
    /\ call.is_yet_unsent
    /\ call.deleted_old
    /\ warning = FALSE

\* C10: for a sent host message the answer is the same with the two snapshots
\* exchanged.
C10_SymmetricWhenSent ==
    (pc = "warning" /\ ~call.is_yet_unsent)
        => warning = need_reply_changed_warning(
                         call.td, call.new_info, call.old_info,
                         call.old_top_thread_message_id, FALSE,
                         call.deleted_new, call.deleted_old)

C10_Witness ==
    /\ pc = "warning"
    /\ ~call.is_yet_unsent
    /\ call.deleted_old
    /\ ~call.deleted_new
    /\ call.old_info.message_id_ = 1048576
    /\ call.new_info.message_id_ = EmptyMessageId
    /\ call.old_info.dialog_id_ = NoDialog
    /\ call.old_info.origin_ = NoOrigin
    /\ warning = TRUE

====
